---- MODULE Spec2Model ----
(***************************************************************************)
(* Model of `kops rolling-update cluster` (cmd/kops/rollingupdatecluster.go) *)
(* RunRollingUpdateCluster is modelled step by step: one action per call    *)
(* that can return early.  The executor it hands over to                    *)
(* (instancegroups.RollingUpdateCluster.RollingUpdate), the drain           *)
(* coordinator and the validation poller are not part of the file; they are *)
(* modelled from the design document (sections 4.3 - 4.5).                  *)
(***************************************************************************)
EXTENDS Integers, Sequences, FiniteSets, TLC

VARIABLES
    pc,            \* position of RunRollingUpdateCluster / of the executor
    result,        \* "" while running, then the outcome of the run
    options,       \* *RollingUpdateOptions, the argument of the run
    nodeLists,     \* number of k8sClient.CoreV1().Nodes().List calls
    instanceGroups,\* []*api.InstanceGroup, the target groups
    warnUnmatched, \* bool
    groups,        \* map[string]*CloudInstanceGroup, the snapshot
    discovered,    \* the snapshot as GetCloudGroups returned it
    needUpdate,    \* bool
    d,             \* *instancegroups.RollingUpdateCluster
    invocations,   \* number of d.RollingUpdate calls
    completed,     \* executor: groups whose update list is exhausted
    cur,           \* executor: <<group, instance>> being updated, or <<>>
    istate,        \* executor: state of every instance of the snapshot
    termLog,       \* sequence of instances sent for cloud termination
    drains,        \* number of drain (cordon + evict) calls
    validations,   \* number of validation poller calls
    polls,         \* health checks made by the running poller call
    lastDrain,     \* outcome of the drain of cur: "none", "ok", "error"
    lastTerminate, \* answer to the termination request for cur:
                   \* "none", "ok", "rejected"
    lastValidate,  \* [inst, outcome] of the last validation poller call
    slept,         \* sequence of [inst, interval]: the post-termination sleeps
    failedAt       \* [inst, state]: where a fatal abort happened

vars == <<pc, result, options, nodeLists, instanceGroups, warnUnmatched,
          groups, discovered, needUpdate, d, invocations, completed, cur,
          istate, termLog, drains, validations, polls, lastDrain,
          lastTerminate, lastValidate, slept, failedAt>>

----------------------------------------------------------------------------
(* Bounds of the model *)

\* number of cloud instances of every instance group
GroupSize == 3
\* longest instance-group name filter
MaxFilter == 2
\* health checks a validation poller call makes before its deadline
MaxPolls == 2

----------------------------------------------------------------------------
(* Data *)

Range(s) == {s[i] : i \in 1..Len(s)}

\* the declared InstanceGroups of the cluster, as the API lists them
DeclaredGroups ==
    << [Name |-> "nodes",    Role |-> "Node"],
       [Name |-> "master-a", Role |-> "Master"],
       [Name |-> "bastions", Role |-> "Bastion"] >>

\* names a caller may put in --instance-group
FilterNames == {"nodes", "master-a", "bastions", "ghost"}

RECURSIVE SeqsUpTo(_, _)
SeqsUpTo(S, n) ==
    IF n = 0 THEN {<<>>}
    ELSE LET prev == SeqsUpTo(S, n - 1)
         IN  prev \cup {Append(s, x) : s \in {t \in prev : Len(t) = n - 1}, x \in S}

\* InitDefaults: the intervals, in minutes
DefaultMasterInterval == 5
DefaultNodeInterval == 4
DefaultBastionInterval == 5
\* InitDefaults: the drain interval, in seconds
DefaultDrainInterval == 90

RollingUpdateOptions ==
    { [Yes |-> y, Force |-> f, CloudOnly |-> c,
       FailOnDrainError |-> fd, FailOnValidate |-> fv,
       DrainInterval |-> DefaultDrainInterval,
       MasterInterval |-> DefaultMasterInterval,
       NodeInterval |-> DefaultNodeInterval,
       BastionInterval |-> DefaultBastionInterval,
       InstanceGroups |-> igs] :
         y \in BOOLEAN, f \in BOOLEAN, c \in BOOLEAN,
         fd \in BOOLEAN, fv \in BOOLEAN,
         igs \in SeqsUpTo(FilterNames, MaxFilter) }

\* the zero value of instancegroups.RollingUpdateCluster
ZeroRollingUpdateCluster ==
    [MasterInterval |-> 0, NodeInterval |-> 0, BastionInterval |-> 0,
     Force |-> FALSE, FailOnDrainError |-> FALSE, FailOnValidate |-> FALSE,
     CloudOnly |-> FALSE, DrainInterval |-> 0]

Errors ==
    {"ClientsetError", "GetClusterError", "ClientConfigError",
     "KubeClientError", "ClusterUnreachableError", "ListInstanceGroupsError",
     "NotFoundError", "BuildCloudError", "GetCloudGroupsError", "RenderError",
     "DrainError", "TerminationError", "ValidationTimeoutError"}

IsError(r) == r \in Errors

----------------------------------------------------------------------------
Init ==
    /\ pc = "clientset"
    /\ result = ""
    /\ options \in RollingUpdateOptions
    /\ nodeLists = 0
    /\ instanceGroups = <<>>
    /\ warnUnmatched = TRUE
    /\ groups = <<>>
    /\ discovered = <<>>
    /\ needUpdate = FALSE
    /\ d = ZeroRollingUpdateCluster
    /\ invocations = 0
    /\ completed = {}
    /\ cur = <<>>
    /\ istate = <<>>
    /\ termLog = <<>>
    /\ drains = 0
    /\ validations = 0
    /\ polls = 0
    /\ lastDrain = "none"
    /\ lastTerminate = "none"
    /\ lastValidate = [inst |-> <<>>, outcome |-> "none"]
    /\ slept = <<>>
    /\ failedAt = [inst |-> <<>>, state |-> "none"]

\* return err / return nil: the run ends with outcome r
Return(r) ==
    /\ pc' = "done"
    /\ result' = r

execVars == <<d, invocations, completed, cur, istate, termLog, drains,
              validations, polls, lastDrain, lastTerminate, lastValidate,
              slept, failedAt>>

\* clientset, err := f.Clientset()
Clientset ==
    /\ pc = "clientset"
    /\ \E ok \in BOOLEAN :
         IF ok THEN pc' = "getCluster" /\ UNCHANGED result
               ELSE Return("ClientsetError")
    /\ UNCHANGED <<options, nodeLists, instanceGroups, warnUnmatched, groups,
                   discovered, needUpdate>>
    /\ UNCHANGED execVars

\* cluster, err := GetCluster(f, options.ClusterName)
GetCluster ==
    /\ pc = "getCluster"
    /\ \E ok \in BOOLEAN :
         IF ok THEN pc' = "clientConfig" /\ UNCHANGED result
               ELSE Return("GetClusterError")
    /\ UNCHANGED <<options, nodeLists, instanceGroups, warnUnmatched, groups,
                   discovered, needUpdate>>
    /\ UNCHANGED execVars

\* config, err := clientcmd....ClientConfig()
ClientConfig ==
    /\ pc = "clientConfig"
    /\ \E ok \in BOOLEAN :
         IF ok THEN pc' = "listNodes" /\ UNCHANGED result
               ELSE Return("ClientConfigError")
    /\ UNCHANGED <<options, nodeLists, instanceGroups, warnUnmatched, groups,
                   discovered, needUpdate>>
    /\ UNCHANGED execVars

\* the error branch of a discovery call returning nil
DiscoveryFailure_ReturnsNil(e) == "Success"

\* if err != nil { return err }: a failed discovery call ends the run with
\* that error
DiscoveryFailure(e) == e

\* the guard of the node listing with the cloudonly test lost
UsesClusterAPI_Always(o) == TRUE

\* if !options.CloudOnly
UsesClusterAPI(o) == ~o.CloudOnly

\* if !options.CloudOnly { NewForConfig; Nodes().List }
ListNodes ==
    /\ pc = "listNodes"
    /\ IF ~UsesClusterAPI(options)
       THEN /\ pc' = "listGroups"
            /\ UNCHANGED <<result, nodeLists>>
       ELSE \E outcome \in {"ok", "noClient", "unreachable"} :
              CASE outcome = "noClient" ->
                     /\ Return(DiscoveryFailure("KubeClientError"))
                     /\ UNCHANGED nodeLists
                [] outcome = "unreachable" ->
                     /\ Return(DiscoveryFailure("ClusterUnreachableError"))
                     /\ nodeLists' = nodeLists + 1
                [] OTHER ->
                     /\ pc' = "listGroups"
                     /\ nodeLists' = nodeLists + 1
                     /\ UNCHANGED result
    /\ UNCHANGED <<options, instanceGroups, warnUnmatched, groups,
                   discovered, needUpdate>>
    /\ UNCHANGED execVars

\* list, err := clientset.InstanceGroupsFor(cluster).List(...)
ListGroups ==
    /\ pc = "listGroups"
    /\ \E ok \in BOOLEAN :
         IF ok THEN /\ pc' = "filter"
                    /\ instanceGroups' = DeclaredGroups
                    /\ UNCHANGED result
               ELSE /\ Return(DiscoveryFailure("ListInstanceGroupsError"))
                    /\ UNCHANGED instanceGroups
    /\ UNCHANGED <<options, nodeLists, warnUnmatched, groups, discovered,
                   needUpdate>>
    /\ UNCHANGED execVars

\* the lookup loop of the filter: found, a pointer to the first declared
\* group of that name, as a sequence of length 1, or <<>> for nil
FindGroup(name, igs) ==
    IF \E i \in 1..Len(igs) : igs[i].Name = name
    THEN << igs[CHOOSE i \in 1..Len(igs) :
                  /\ igs[i].Name = name
                  /\ \A j \in 1..(i - 1) : igs[j].Name # name] >>
    ELSE <<>>

\* the filter loop with its result never assigned to instanceGroups
FilterGroups_KeepsAll(names, igs) ==
    [found |-> \A i \in 1..Len(names) : FindGroup(names[i], igs) # <<>>,
     filtered |-> igs]

\* the filter loop going on to the next name where it should return
FilterGroups_SkipsUnknown(names, igs) ==
    LET known == SelectSeq(names, LAMBDA n : FindGroup(n, igs) # <<>>)
    IN  [found |-> TRUE,
         filtered |-> [i \in 1..Len(known) |-> FindGroup(known[i], igs)[1]]]

\* the filter loop: the groups named, in the order named; found is FALSE
\* when a name matches no group (the loop returns at the first such name)
FilterGroups(names, igs) ==
    IF \E i \in 1..Len(names) : FindGroup(names[i], igs) = <<>>
    THEN [found |-> FALSE, filtered |-> <<>>]
    ELSE [found |-> TRUE,
          filtered |-> [i \in 1..Len(names) |-> FindGroup(names[i], igs)[1]]]

\* if len(options.InstanceGroups) != 0 { ... }
Filter ==
    /\ pc = "filter"
    /\ IF Len(options.InstanceGroups) # 0
       THEN LET f == FilterGroups(options.InstanceGroups, instanceGroups)
            IN  IF ~f.found
                THEN /\ Return("NotFoundError")
                     /\ UNCHANGED <<instanceGroups, warnUnmatched>>
                ELSE /\ instanceGroups' = f.filtered
                     /\ warnUnmatched' = FALSE
                     /\ pc' = "buildCloud"
                     /\ UNCHANGED result
       ELSE /\ pc' = "buildCloud"
            /\ UNCHANGED <<result, instanceGroups, warnUnmatched>>
    /\ UNCHANGED <<options, nodeLists, groups, discovered, needUpdate>>
    /\ UNCHANGED execVars

\* cloud, err := cloudup.BuildCloud(cluster)
BuildCloud ==
    /\ pc = "buildCloud"
    /\ \E ok \in BOOLEAN :
         IF ok THEN pc' = "getCloudGroups" /\ UNCHANGED result
               ELSE Return(DiscoveryFailure("BuildCloudError"))
    /\ UNCHANGED <<options, nodeLists, instanceGroups, warnUnmatched, groups,
                   discovered, needUpdate>>
    /\ UNCHANGED execVars

\* a CloudInstanceGroup with n stale and r up-to-date instances; the
\* instances are numbered in discovery order
CloudInstanceGroup(ig, n, r) ==
    [InstanceGroup |-> ig,
     Status        |-> IF n > 0 THEN "NeedsUpdate" ELSE "Ready",
     NeedUpdate    |-> [i \in 1..n |-> i],
     Ready         |-> [i \in 1..r |-> n + i]]

\* groups, err := cloud.GetCloudGroups(cluster, instanceGroups, warnUnmatched, nodes)
GetCloudGroups ==
    /\ pc = "getCloudGroups"
    /\ \/ /\ Return(DiscoveryFailure("GetCloudGroupsError"))
          /\ UNCHANGED <<groups, discovered, istate>>
       \/ LET names == {instanceGroups[i].Name : i \in 1..Len(instanceGroups)}
          IN  \E stale \in [names -> 0..GroupSize] :
                LET found == [g \in names |->
                                CloudInstanceGroup(FindGroup(g, instanceGroups)[1],
                                                   stale[g], GroupSize - stale[g])]
                IN  /\ groups' = found
                    /\ discovered' = found
                    /\ istate' = [g \in names |->
                                    [i \in 1..GroupSize |-> "Pending"]]
                    /\ pc' = "render"
                    /\ UNCHANGED result
    /\ UNCHANGED <<options, nodeLists, instanceGroups, warnUnmatched, needUpdate>>
    /\ UNCHANGED <<d, invocations, completed, cur, termLog, drains,
                   validations, polls, lastDrain, lastTerminate, lastValidate,
                   slept, failedAt>>

\* err := t.Render(l, out, columns...)
Render ==
    /\ pc = "render"
    /\ \E ok \in BOOLEAN :
         IF ok THEN pc' = "gate" /\ UNCHANGED result
               ELSE Return("RenderError")
    /\ UNCHANGED <<options, nodeLists, instanceGroups, warnUnmatched, groups,
                   discovered, needUpdate>>
    /\ UNCHANGED execVars

\* needUpdate := false; for _, group := range groups { ... }
NeedUpdateOf(gs) == \E g \in DOMAIN gs : Len(gs[g].NeedUpdate) # 0

\* the gates with the first test not reading Force
GateOutcome_IgnoresForce(nu, o) ==
    IF ~nu THEN "NoUpdateRequired"
    ELSE IF ~o.Yes THEN "ConfirmationRequired"
    ELSE ""

\* the gates with the "no update required" test left out
GateOutcome_NoUpdateTestMissing(nu, o) ==
    IF ~o.Yes THEN "ConfirmationRequired" ELSE ""

\* the gates with Force also standing in for the confirmation
GateOutcome_ForceConfirms(nu, o) ==
    IF ~nu /\ ~o.Force THEN "NoUpdateRequired"
    ELSE IF ~o.Yes /\ ~o.Force THEN "ConfirmationRequired"
    ELSE ""

\* the two gates before execution: the outcome the run ends with, or ""
\* when it goes on to execution
GateOutcome(nu, o) ==
    IF ~nu /\ ~o.Force THEN "NoUpdateRequired"
    ELSE IF ~o.Yes THEN "ConfirmationRequired"
    ELSE ""

Gate ==
    /\ pc = "gate"
    /\ needUpdate' = NeedUpdateOf(groups)
    /\ IF GateOutcome(needUpdate', options) # ""
       THEN Return(GateOutcome(needUpdate', options))
       ELSE pc' = "rollingUpdate" /\ UNCHANGED result
    /\ UNCHANGED <<options, nodeLists, instanceGroups, warnUnmatched, groups,
                   discovered>>
    /\ UNCHANGED execVars

\* the executor built with CloudOnly read from the wrong option
NewRollingUpdateCluster_CloudOnlyFromForce(o) ==
    [ZeroRollingUpdateCluster EXCEPT
       !.MasterInterval = o.MasterInterval, !.NodeInterval = o.NodeInterval,
       !.Force = o.Force, !.FailOnDrainError = o.FailOnDrainError,
       !.FailOnValidate = o.FailOnValidate,
       !.CloudOnly = o.Force, !.DrainInterval = o.DrainInterval]

\* the executor built with Force always set
NewRollingUpdateCluster_ForceAlways(o) ==
    [ZeroRollingUpdateCluster EXCEPT
       !.MasterInterval = o.MasterInterval, !.NodeInterval = o.NodeInterval,
       !.Force = TRUE, !.FailOnDrainError = o.FailOnDrainError,
       !.FailOnValidate = o.FailOnValidate,
       !.CloudOnly = o.CloudOnly, !.DrainInterval = o.DrainInterval]

\* the executor built with FailOnDrainError at the flag's default
NewRollingUpdateCluster_DefaultFailOnDrainError(o) ==
    [ZeroRollingUpdateCluster EXCEPT
       !.MasterInterval = o.MasterInterval, !.NodeInterval = o.NodeInterval,
       !.Force = o.Force, !.FailOnDrainError = TRUE,
       !.FailOnValidate = o.FailOnValidate,
       !.CloudOnly = o.CloudOnly, !.DrainInterval = o.DrainInterval]

\* the executor built without the FailOnDrainError field
NewRollingUpdateCluster_NoFailOnDrainError(o) ==
    [ZeroRollingUpdateCluster EXCEPT
       !.MasterInterval = o.MasterInterval, !.NodeInterval = o.NodeInterval,
       !.Force = o.Force, !.FailOnValidate = o.FailOnValidate,
       !.CloudOnly = o.CloudOnly, !.DrainInterval = o.DrainInterval]

\* the executor built without the FailOnValidate field
NewRollingUpdateCluster_NoFailOnValidate(o) ==
    [ZeroRollingUpdateCluster EXCEPT
       !.MasterInterval = o.MasterInterval, !.NodeInterval = o.NodeInterval,
       !.Force = o.Force, !.FailOnDrainError = o.FailOnDrainError,
       !.CloudOnly = o.CloudOnly, !.DrainInterval = o.DrainInterval]

\* the executor built with FailOnValidate at the flag's default
NewRollingUpdateCluster_DefaultFailOnValidate(o) ==
    [ZeroRollingUpdateCluster EXCEPT
       !.MasterInterval = o.MasterInterval, !.NodeInterval = o.NodeInterval,
       !.Force = o.Force, !.FailOnDrainError = o.FailOnDrainError,
       !.FailOnValidate = TRUE,
       !.CloudOnly = o.CloudOnly, !.DrainInterval = o.DrainInterval]

\* d := &instancegroups.RollingUpdateCluster{ ... }
NewRollingUpdateCluster(o) ==
    [MasterInterval   |-> o.MasterInterval,
     NodeInterval     |-> o.NodeInterval,
     BastionInterval  |-> ZeroRollingUpdateCluster.BastionInterval,
     Force            |-> o.Force,
     FailOnDrainError |-> o.FailOnDrainError,
     FailOnValidate   |-> o.FailOnValidate,
     CloudOnly        |-> o.CloudOnly,
     DrainInterval    |-> o.DrainInterval]

\* return d.RollingUpdate(groups, list): the call
RollingUpdate ==
    /\ pc = "rollingUpdate"
    /\ d' = NewRollingUpdateCluster(options)
    /\ invocations' = invocations + 1
    /\ pc' = "pickGroup"
    /\ UNCHANGED <<result, options, nodeLists, instanceGroups, warnUnmatched,
                   groups, discovered, needUpdate>>
    /\ UNCHANGED <<completed, cur, istate, termLog, drains, validations,
                   polls, lastDrain, lastTerminate, lastValidate, slept,
                   failedAt>>

----------------------------------------------------------------------------
(* The executor, the drain coordinator and the validation poller           *)

\* group ordering: bastions, then masters, then nodes
RoleRank(role) ==
    CASE role = "Bastion" -> 1
      [] role = "Master"  -> 2
      [] role = "Node"    -> 3

RoleOf(g) == groups[g].InstanceGroup.Role

\* the groups taken in the order the map yields them
NextGroups_AnyOrder(remaining) == remaining

\* the groups the executor may take next: those of the earliest role left;
\* the snapshot is a map, so groups of one role come in any order
NextGroups(remaining) ==
    {g \in remaining :
       \A h \in remaining : RoleRank(RoleOf(g)) <= RoleRank(RoleOf(h))}

\* the instances of a group to replace, in discovery order
UpdateList(g) ==
    groups[g].NeedUpdate \o (IF d.Force THEN groups[g].Ready ELSE <<>>)

PendingOf(g) == SelectSeq(UpdateList(g), LAMBDA i : istate[g][i] = "Pending")

\* the wait after a termination, and the validation deadline, by group type
IntervalFor(role) ==
    CASE role = "Bastion" -> d.BastionInterval
      [] role = "Master"  -> d.MasterInterval
      [] role = "Node"    -> d.NodeInterval

\* does a drain error abort the run
DrainErrorIsFatal == d.FailOnDrainError

\* does a validation timeout abort the run
ValidationTimeoutIsFatal == d.FailOnValidate

\* are the drain and the validation of an instance skipped
SkipClusterAPI == d.CloudOnly

\* the snapshot without the entry of instance i of group g
RemoveInstance(gs, g, i) ==
    [gs EXCEPT ![g].NeedUpdate = SelectSeq(@, LAMBDA x : x # i),
               ![g].Ready      = SelectSeq(@, LAMBDA x : x # i)]

\* the executor's error dropped by the caller
RollingUpdateReturn_DropsError(r) == "Success"

\* return d.RollingUpdate(groups, list): the run's outcome is the executor's
RollingUpdateReturn(r) == r

\* an instance whose termination was rejected marked Failed
RejectedState_Failed == "Failed"

\* the state of an instance whose termination request was rejected: its
\* disposition is unknown, it stays where it was
RejectedState == "Terminating"

\* the executor going on to the next instance right after a termination
AfterTermination_NoWait == "nextInstance"

\* where the executor goes after a termination request was accepted
AfterTermination == "sleep"

\* a fatal abort: the run ends with error e, naming instance and state
Abort(e, st) ==
    /\ Return(RollingUpdateReturn(e))
    /\ failedAt' = [inst |-> cur, state |-> st]

wrapVars == <<options, nodeLists, instanceGroups, warnUnmatched, discovered,
              needUpdate, d, invocations>>

\* the executor takes the next group, or finishes with success
PickGroup ==
    /\ pc = "pickGroup"
    /\ LET remaining == DOMAIN groups \ completed
       IN  IF remaining = {}
           THEN /\ Return(RollingUpdateReturn("Success"))
                /\ UNCHANGED cur
           ELSE /\ \E g \in NextGroups(remaining) : cur' = <<g, 0>>
                /\ pc' = "nextInstance"
                /\ UNCHANGED result
    /\ UNCHANGED wrapVars
    /\ UNCHANGED <<groups, completed, istate, termLog, drains, validations,
                   polls, lastDrain, lastTerminate, lastValidate, slept,
                   failedAt>>

\* the executor takes the next instance of the group, or completes the group
NextInstance ==
    /\ pc = "nextInstance"
    /\ LET g == cur[1]
       IN  IF PendingOf(g) = <<>>
           THEN /\ completed' = completed \cup {g}
                /\ pc' = "pickGroup"
                /\ UNCHANGED <<cur, istate, lastDrain, lastTerminate>>
           ELSE LET i == Head(PendingOf(g))
                IN  /\ cur' = <<g, i>>
                    /\ lastDrain' = "none"
                    /\ lastTerminate' = "none"
                    /\ UNCHANGED completed
                    /\ IF SkipClusterAPI
                       THEN /\ istate' = [istate EXCEPT ![g][i] = "Terminating"]
                            /\ pc' = "terminate"
                       ELSE /\ istate' = [istate EXCEPT ![g][i] = "Draining"]
                            /\ pc' = "drain"
    /\ UNCHANGED wrapVars
    /\ UNCHANGED <<result, groups, termLog, drains, validations, polls,
                   lastValidate, slept, failedAt>>

\* drain coordinator: cordon the node and evict its pods, up to DrainInterval
Drain ==
    /\ pc = "drain"
    /\ drains' = drains + 1
    /\ \E ok \in BOOLEAN :
         /\ lastDrain' = IF ok THEN "ok" ELSE "error"
         /\ IF ~ok /\ DrainErrorIsFatal
            THEN /\ istate' = [istate EXCEPT ![cur[1]][cur[2]] = "Failed"]
                 /\ Abort("DrainError", "Draining")
            ELSE /\ istate' = [istate EXCEPT ![cur[1]][cur[2]] = "Terminating"]
                 /\ pc' = "terminate"
                 /\ UNCHANGED <<result, failedAt>>
    /\ UNCHANGED wrapVars
    /\ UNCHANGED <<groups, completed, cur, termLog, validations, polls,
                   lastTerminate, lastValidate, slept>>

\* request cloud termination of the instance; a rejection is always fatal
Terminate ==
    /\ pc = "terminate"
    /\ termLog' = Append(termLog, cur)
    /\ \E ok \in BOOLEAN :
         /\ lastTerminate' = IF ok THEN "ok" ELSE "rejected"
         /\ IF ok
            THEN /\ istate' = [istate EXCEPT ![cur[1]][cur[2]] = "AwaitingReplacement"]
                 /\ groups' = RemoveInstance(groups, cur[1], cur[2])
                 /\ pc' = AfterTermination
                 /\ UNCHANGED <<result, failedAt>>
            ELSE /\ istate' = [istate EXCEPT ![cur[1]][cur[2]] = RejectedState]
                 /\ Abort("TerminationError", "Terminating")
                 /\ UNCHANGED groups
    /\ UNCHANGED wrapVars
    /\ UNCHANGED <<completed, cur, drains, validations, polls, lastDrain,
                   lastValidate, slept>>

\* sleep the interval of the group type, then validate (unless CloudOnly)
Sleep ==
    /\ pc = "sleep"
    /\ slept' = Append(slept, [inst |-> cur, interval |-> IntervalFor(RoleOf(cur[1]))])
    /\ IF SkipClusterAPI
       THEN /\ istate' = [istate EXCEPT ![cur[1]][cur[2]] = "Done"]
            /\ pc' = "nextInstance"
            /\ UNCHANGED <<validations, polls>>
       ELSE /\ istate' = [istate EXCEPT ![cur[1]][cur[2]] = "Validating"]
            /\ pc' = "validate"
            /\ validations' = validations + 1
            /\ polls' = 0
    /\ UNCHANGED wrapVars
    /\ UNCHANGED <<result, groups, completed, cur, termLog, drains, lastDrain,
                   lastTerminate, lastValidate, failedAt>>

\* validation poller: one health check; healthy, retry, or deadline reached
Validate ==
    /\ pc = "validate"
    /\ \E healthy \in BOOLEAN :
         IF healthy
         THEN /\ istate' = [istate EXCEPT ![cur[1]][cur[2]] = "Done"]
              /\ lastValidate' = [inst |-> cur, outcome |-> "ok"]
              /\ polls' = 0
              /\ pc' = "nextInstance"
              /\ UNCHANGED <<result, failedAt>>
         ELSE IF polls + 1 < MaxPolls
         THEN /\ polls' = polls + 1
              /\ UNCHANGED <<pc, result, istate, lastValidate, failedAt>>
         ELSE /\ lastValidate' = [inst |-> cur, outcome |-> "timeout"]
              /\ polls' = 0
              /\ IF ValidationTimeoutIsFatal
                 THEN /\ istate' = [istate EXCEPT ![cur[1]][cur[2]] = "Failed"]
                      /\ Abort("ValidationTimeoutError", "Validating")
                 ELSE /\ istate' = [istate EXCEPT ![cur[1]][cur[2]] = "Done"]
                      /\ pc' = "nextInstance"
                      /\ UNCHANGED <<result, failedAt>>
    /\ UNCHANGED wrapVars
    /\ UNCHANGED <<groups, completed, cur, termLog, drains, validations,
                   lastDrain, lastTerminate, slept>>

Next ==
    \/ Clientset
    \/ GetCluster
    \/ ClientConfig
    \/ ListNodes
    \/ ListGroups
    \/ Filter
    \/ BuildCloud
    \/ GetCloudGroups
    \/ Render
    \/ Gate
    \/ RollingUpdate
    \/ PickGroup
    \/ NextInstance
    \/ Drain
    \/ Terminate
    \/ Sleep
    \/ Validate

Spec == Init /\ [][Next]_vars

\* the run is one sequential program: it keeps taking its next step
FairSpec == Spec /\ WF_vars(Next)

\* the runs that tolerate a validation timeout: FailOnValidate is false and
\* the cluster API is used
TolerantInit == Init /\ ~options.FailOnValidate /\ ~options.CloudOnly

TolerantFairSpec == TolerantInit /\ [][Next]_vars /\ WF_vars(Next)

----------------------------------------------------------------------------
(* Properties *)

\* the snapshot has been built (every cluster of the model declares groups)
SnapshotBuilt == DOMAIN discovered # {}

\* some group of the snapshot was discovered with a stale instance
AnyStale == \E g \in DOMAIN discovered : discovered[g].NeedUpdate # <<>>

\* no cordon, eviction or termination has happened, the executor never ran
NoMutation ==
    /\ termLog = <<>>
    /\ drains = 0
    /\ invocations = 0
    /\ \A g \in DOMAIN istate : \A i \in DOMAIN istate[g] : istate[g][i] = "Pending"

\* C1: when the snapshot has no stale instance in any group and Force is
\* false, the run terminates and drains nothing, whatever Yes is, and (the
\* summary table once written) ends with the successful outcome "no update
\* required"
C1_NoUpdateRequired ==
    [](
    (SnapshotBuilt /\ ~AnyStale /\ ~options.Force) =>
        /\ NoMutation
        /\ pc \in {"render", "gate", "done"}
        /\ (pc = "done" /\ result # "RenderError") =>
              (result = "NoUpdateRequired" /\ ~IsError(result))
    )

C1_Witness ==
    /\ SnapshotBuilt /\ ~AnyStale /\ ~options.Force
    /\ options.Yes
    /\ pc = "done" /\ result = "NoUpdateRequired"

\* C2: when Yes is false and some group has a stale instance or Force is
\* true, the run terminates and drains nothing and (the summary table once
\* written) ends successfully with the outcome "confirmation required"
C2_ConfirmationRequired ==
    [](
    (SnapshotBuilt /\ ~options.Yes /\ (AnyStale \/ options.Force)) =>
        /\ NoMutation
        /\ pc \in {"render", "gate", "done"}
        /\ (pc = "done" /\ result # "RenderError") =>
              (result = "ConfirmationRequired" /\ ~IsError(result))
    )

C2_Witness ==
    /\ SnapshotBuilt /\ ~options.Yes /\ ~AnyStale /\ options.Force
    /\ pc = "done" /\ result = "ConfirmationRequired"

DeclaredNames == {DeclaredGroups[i].Name : i \in 1..Len(DeclaredGroups)}

FilterHasUnknownName ==
    \E i \in 1..Len(options.InstanceGroups) :
        options.InstanceGroups[i] \notin DeclaredNames

\* C3: when the name filter holds a name no declared InstanceGroup has, the
\* run never gets past the filter, mutates nothing, and once the groups are
\* listed it ends with the not-found error, whatever Yes, Force and the other
\* names are
C3_NotFound ==
    [](
    FilterHasUnknownName =>
        /\ NoMutation
        /\ ~SnapshotBuilt
        /\ pc \in {"clientset", "getCluster", "clientConfig", "listNodes",
                   "listGroups", "filter", "done"}
        /\ (pc = "done" /\ instanceGroups # <<>>) => result = "NotFoundError"
    )

C3_Witness ==
    /\ Len(options.InstanceGroups) = 2
    /\ options.InstanceGroups[1] \in DeclaredNames
    /\ options.InstanceGroups[2] \notin DeclaredNames
    /\ options.Yes /\ options.Force
    /\ pc = "done" /\ result = "NotFoundError"

----------------------------------------------------------------------------
(* Properties of the execution *)

Instances == {<<g, i>> : g \in DOMAIN istate, i \in 1..GroupSize}

StateOf(x) == istate[x[1]][x[2]]

\* the instances strictly between Pending and Done/Failed
MidUpdate ==
    {x \in Instances :
       StateOf(x) \in {"Draining", "Terminating", "AwaitingReplacement", "Validating"}}

RoleIn(g) == discovered[g].InstanceGroup.Role

\* the instances of group g the run is to replace, as discovered
InitialList(g) ==
    discovered[g].NeedUpdate \o (IF options.Force THEN discovered[g].Ready ELSE <<>>)

GroupCompleted(h) ==
    /\ h \in completed
    /\ \A k \in Range(InitialList(h)) : istate[h][k] = "Done"

RoleBefore(a, b) ==
    \/ a = "Bastion" /\ b = "Master"
    \/ a = "Master" /\ b = "Node"

\* C4: no master instance is drained or terminated before every bastion
\* group has completed, and no node instance before every master group has
\* completed, whatever order the snapshot yields its groups in
C4_GroupOrder ==
    [](
    \A g \in DOMAIN istate :
        (\E i \in 1..GroupSize : istate[g][i] # "Pending") =>
            \A h \in DOMAIN istate :
                RoleBefore(RoleIn(h), RoleIn(g)) => GroupCompleted(h)
    )

C4_Witness ==
    /\ DOMAIN istate = {"bastions", "master-a", "nodes"}
    /\ \A g \in DOMAIN istate : discovered[g].NeedUpdate # <<>>
    /\ istate["nodes"][1] = "Draining"
    /\ GroupCompleted("bastions") /\ GroupCompleted("master-a")

\* C5: at most one instance of the whole run is between Pending and
\* Done/Failed, and every instance terminated before the latest one has had
\* its interval sleep and (unless CloudOnly) its validation and is Done
C5_OneAtATime ==
    [](
    /\ Cardinality(MidUpdate) <= 1
    /\ \A k \in 1..(Len(termLog) - 1) :
          /\ StateOf(termLog[k]) = "Done"
          /\ \E j \in 1..Len(slept) : slept[j].inst = termLog[k]
    /\ Len(slept) >= Len(termLog) - 1
    /\ ~options.CloudOnly => validations >= Len(termLog) - 1
    )

C5_Witness ==
    /\ ~options.CloudOnly
    /\ Len(termLog) = 2
    /\ termLog[1][1] = termLog[2][1]
    /\ StateOf(termLog[1]) = "Done"
    /\ StateOf(termLog[2]) = "AwaitingReplacement"
    /\ \E x \in Instances : x[1] = cur[1] /\ StateOf(x) = "Pending"

\* every instance but x is untouched or finished, the terminated ones are
\* finished and the untouched ones were never sent for termination
OnlyOpenInstance(x) ==
    /\ \A y \in Instances \ {x} : StateOf(y) \in {"Pending", "Done"}
    /\ \A y \in Instances \ {x} : StateOf(y) = "Pending" => y \notin Range(termLog)
    /\ \A k \in 1..Len(termLog) : termLog[k] # x => StateOf(termLog[k]) = "Done"

DrainFailedFatal ==
    options.FailOnDrainError /\ ~options.CloudOnly /\ lastDrain = "error"

C6_Aborted ==
    /\ pc = "done"
    /\ result = "DrainError"
    /\ StateOf(cur) = "Failed"
    /\ cur \notin Range(termLog)
    /\ OnlyOpenInstance(cur)

\* C6: with FailOnDrainError and without CloudOnly, a drain failure on an
\* instance ends the run with the drain error at once: that instance and
\* every instance after it, in its group or a later one, is never terminated,
\* and no step follows
C6_DrainErrorAborts ==
    [][~DrainFailedFatal /\ (DrainFailedFatal' => C6_Aborted')]_vars

C6_Witness ==
    /\ DrainFailedFatal
    /\ pc = "done"
    /\ cur = <<"master-a", 2>>
    /\ Len(discovered["master-a"].NeedUpdate) = 3
    /\ "nodes" \in DOMAIN discovered /\ discovered["nodes"].NeedUpdate # <<>>
    /\ termLog # <<>>

ValidationTimedOutFatal ==
    options.FailOnValidate /\ ~options.CloudOnly /\ lastValidate.outcome = "timeout"

C7_Aborted ==
    /\ pc = "done"
    /\ result = "ValidationTimeoutError"
    /\ IsError(result)
    /\ lastValidate.inst = cur
    /\ StateOf(cur) = "Failed"
    /\ failedAt = [inst |-> cur, state |-> "Validating"]
    /\ OnlyOpenInstance(cur)
    /\ drains = Len(termLog)

\* C7: with FailOnValidate and without CloudOnly, a validation timeout on an
\* instance ends the run with a failure at once: no instance after it is
\* drained or terminated, and no step follows
C7_ValidationTimeoutAborts ==
    [][~ValidationTimedOutFatal /\ (ValidationTimedOutFatal' => C7_Aborted')]_vars

C7_Witness ==
    /\ ValidationTimedOutFatal
    /\ ~options.Force
    /\ cur = <<"nodes", 2>>
    /\ Len(discovered["nodes"].NeedUpdate) = 3
    /\ result = "ValidationTimeoutError"
    /\ istate["nodes"][1] = "Done"
    /\ istate["nodes"][3] = "Pending"
    /\ <<"nodes", 3>> \notin Range(termLog)

\* an instance of a group not yet completed is still to be taken
MoreToDo == \E g \in DOMAIN groups \ completed : PendingOf(g) # <<>>

\* the validation of cur has just timed out and the executor went on
JustTimedOut ==
    /\ pc = "nextInstance"
    /\ lastValidate = [inst |-> cur, outcome |-> "timeout"]

\* C8: with FailOnValidate false a validation timeout never fails the run:
\* the step that times out marks the instance Done and goes on, and when an
\* instance is left to take (next of the group, or first of a later group)
\* the executor does start on it
C8_TimeoutTolerated ==
    /\ [](~options.FailOnValidate => result # "ValidationTimeoutError")
    /\ [][(/\ ~options.FailOnValidate
           /\ pc = "validate"
           /\ lastValidate' = [inst |-> cur, outcome |-> "timeout"])
          => (/\ pc' = "nextInstance"
              /\ result' = ""
              /\ istate'[cur[1]][cur[2]] = "Done")]_vars
    /\ (~options.FailOnValidate /\ JustTimedOut /\ MoreToDo)
          ~> (pc \in {"drain", "terminate"} /\ lastValidate.inst # cur)

C8_Witness ==
    /\ ~options.FailOnValidate
    /\ lastValidate = [inst |-> <<"master-a", GroupSize>>, outcome |-> "timeout"]
    /\ "nodes" \in DOMAIN istate
    /\ cur = <<"nodes", 1>>
    /\ StateOf(cur) = "Terminating"
    /\ result = ""

\* the instances sent for termination follow the group order and, within a
\* group, the discovery order
TermLogOrdered ==
    \A k, l \in 1..Len(termLog) :
        k < l =>
            /\ RoleRank(RoleIn(termLog[k][1])) <= RoleRank(RoleIn(termLog[l][1]))
            /\ termLog[k][1] = termLog[l][1] => termLog[k][2] < termLog[l][2]

ToReplace == {<<g, i>> : g \in DOMAIN discovered, i \in 1..GroupSize} \cap
             {x \in Instances : x[2] \in Range(InitialList(x[1]))}

\* C9: with CloudOnly no node is listed, nothing is drained and no health
\* check is made in any state, while the instances to replace are terminated
\* one by one in order, each followed by its wait, and a run that ends with
\* success has terminated exactly those
C9_CloudOnly ==
    [](
    options.CloudOnly =>
        /\ nodeLists = 0
        /\ drains = 0
        /\ validations = 0
        /\ polls = 0
        /\ \A x \in Instances : StateOf(x) \notin {"Draining", "Validating", "Failed"}
        /\ TermLogOrdered
        /\ Range(termLog) \subseteq ToReplace
        /\ result = "Success" =>
              /\ Range(termLog) = ToReplace
              /\ Len(termLog) = Cardinality(ToReplace)
              /\ slept = [k \in 1..Len(termLog) |->
                            [inst |-> termLog[k],
                             interval |-> slept[k].interval]]
              /\ \A x \in ToReplace : StateOf(x) = "Done"
    )

C9_Witness ==
    /\ options.CloudOnly /\ options.Yes /\ ~options.Force
    /\ DOMAIN discovered = {"bastions", "master-a"}
    /\ Len(discovered["bastions"].NeedUpdate) = 1
    /\ Len(discovered["master-a"].NeedUpdate) = 3
    /\ result = "Success"
    /\ termLog = << <<"bastions", 1>>, <<"master-a", 1>>,
                    <<"master-a", 2>>, <<"master-a", 3>> >>
    /\ Len(slept) = 4

TerminationRejected == lastTerminate = "rejected"

C10_Aborted ==
    /\ pc = "done"
    /\ IsError(result)
    /\ result = "TerminationError"
    /\ StateOf(cur) \notin {"Pending", "Done"}
    /\ cur[2] \in Range(groups[cur[1]].NeedUpdate \o groups[cur[1]].Ready)
    /\ cur[1] \notin completed
    /\ failedAt = [inst |-> cur, state |-> "Terminating"]
    /\ termLog[Len(termLog)] = cur
    /\ OnlyOpenInstance(cur)

\* C10: whatever Force, CloudOnly, FailOnDrainError and FailOnValidate are, a
\* rejected termination request ends the run with a failure at once: the
\* instance is neither Done nor dropped from the snapshot, no later instance
\* is drained or terminated, and no step follows
C10_TerminationErrorFatal ==
    [][~TerminationRejected /\ (TerminationRejected' => C10_Aborted')]_vars

C10_Witness ==
    /\ TerminationRejected
    /\ options.Force /\ options.CloudOnly
    /\ ~options.FailOnDrainError /\ ~options.FailOnValidate
    /\ Len(termLog) >= 2
    /\ \E x \in Instances : StateOf(x) = "Pending"

----------------------------------------------------------------------------
(* Properties of discovery, of the hand-over and of the per-instance steps *)

DiscoverySteps == {"listNodes", "listGroups", "buildCloud", "getCloudGroups"}

DiscoveryErrors ==
    {"KubeClientError", "ClusterUnreachableError", "ListInstanceGroupsError",
     "BuildCloudError", "GetCloudGroupsError"}

\* C11: a discovery step (node listing unless CloudOnly, instance-group
\* listing, cloud construction, cloud-group discovery) that ends the run ends
\* it with that step's error, and whenever a run has ended with such an
\* error nothing was cordoned, evicted or terminated and the executor never
\* ran
C11_DiscoveryFailure ==
    /\ [][(pc \in DiscoverySteps /\ pc' = "done") =>
             (/\ IsError(result')
              /\ result' \in DiscoveryErrors
              /\ NoMutation')]_vars
    /\ [](result \in DiscoveryErrors => (pc = "done" /\ NoMutation))

C11_Witness ==
    /\ pc = "done"
    /\ result = "GetCloudGroupsError"
    /\ options.Yes /\ options.Force /\ ~options.CloudOnly
    /\ nodeLists = 1
    /\ NoMutation

ExecutionErrors == {"DrainError", "TerminationError", "ValidationTimeoutError"}

\* the run ended after the executor was called, with an instance to replace
\* not Done
AbortedMidExecution ==
    /\ pc = "done"
    /\ invocations = 1
    /\ \E x \in ToReplace : StateOf(x) # "Done"

\* x is taken before y: an earlier group type, or earlier in the same group
ComesBefore(x, y) ==
    \/ RoleRank(RoleIn(x[1])) < RoleRank(RoleIn(y[1]))
    \/ x[1] = y[1] /\ x[2] < y[2]

\* the state an instance is left in when the run fails on it in state st
LeftIn(st) == IF st = "Terminating" THEN "Terminating" ELSE "Failed"

\* C12: a run that aborts mid-execution ends with an error that names the
\* instance (group and index) and the state it had reached: that instance is
\* left in that state, every instance taken before it is Done and no instance
\* after it, nor any instance not to be replaced, was touched
C12_ReportsProgress ==
    [](
    AbortedMidExecution =>
        /\ IsError(result)
        /\ result \in ExecutionErrors
        /\ failedAt.inst = cur
        /\ cur \in ToReplace
        /\ failedAt.state =
             (CASE result = "DrainError" -> "Draining"
                [] result = "TerminationError" -> "Terminating"
                [] OTHER -> "Validating")
        /\ StateOf(cur) = LeftIn(failedAt.state)
        /\ \A y \in ToReplace :
              /\ ComesBefore(y, cur) => StateOf(y) = "Done"
              /\ ComesBefore(cur, y) =>
                    (StateOf(y) = "Pending" /\ y \notin Range(termLog))
        /\ \A y \in Instances \ ToReplace : StateOf(y) = "Pending"
    )

C12_Witness ==
    /\ AbortedMidExecution
    /\ result = "TerminationError"
    /\ failedAt = [inst |-> <<"master-a", 2>>, state |-> "Terminating"]
    /\ DOMAIN discovered = {"bastions", "master-a", "nodes"}
    /\ \A g \in DOMAIN discovered : Len(InitialList(g)) >= 2
    /\ istate["bastions"][2] = "Done"
    /\ istate["master-a"][1] = "Done"
    /\ istate["nodes"][1] = "Pending"

ExecutorPositions ==
    {"pickGroup", "nextInstance", "drain", "terminate", "sleep", "validate"}

\* C13: once the snapshot is built, with Yes true and a stale instance in
\* some group or Force true, the run (its summary table once written) goes on
\* to execution: it never ends at a gate, and the executor is called exactly
\* once, also when Force is true and no instance is stale
C13_ProceedsToExecution ==
    [](
    (SnapshotBuilt /\ options.Yes /\ (AnyStale \/ options.Force)) =>
        /\ invocations <= 1
        /\ result \notin {"NoUpdateRequired", "ConfirmationRequired"}
        /\ pc \in ExecutorPositions => invocations = 1
        /\ (pc = "done" /\ result # "RenderError") => invocations = 1
        /\ pc \in {"render", "gate", "rollingUpdate", "done"} \cup ExecutorPositions
    )

C13_Witness ==
    /\ SnapshotBuilt /\ options.Yes /\ options.Force /\ ~AnyStale
    /\ invocations = 1
    /\ pc = "done" /\ result = "Success"
    /\ termLog # <<>>

\* the interval the caller configured for a group type
ConfiguredInterval(role) ==
    CASE role = "Bastion" -> options.BastionInterval
      [] role = "Master"  -> options.MasterInterval
      [] role = "Node"    -> options.NodeInterval

\* C14: the wait after each termination is the configured interval of the
\* instance's group type (BastionInterval, MasterInterval, NodeInterval): each
\* of the three configured values reaches the executor unchanged
C14_ConfiguredIntervals ==
    \A k \in 1..Len(slept) :
        slept[k].interval = ConfiguredInterval(RoleIn(slept[k].inst[1]))

\* the target group set: the groups the caller selected, or all if none
Targets ==
    IF Len(options.InstanceGroups) = 0 THEN DeclaredNames
    ELSE Range(options.InstanceGroups)

PastDraining == {x \in Instances : StateOf(x) \notin {"Pending", "Draining"}}

\* the instances whose interval sleep is behind them
SleptOn == {slept[k].inst : k \in 1..Len(slept)}

StepOrderInv ==
    /\ Range(termLog) \subseteq PastDraining
    /\ SleptOn \subseteq Range(termLog)
    /\ \A k \in 1..Len(slept) :
          slept[k].interval = IntervalFor(RoleIn(slept[k].inst[1]))
    /\ ~options.CloudOnly =>
          /\ drains = Cardinality(PastDraining)
          /\ pc = "terminate" => lastDrain # "none"
          /\ validations = Len(slept)
          /\ \A x \in Instances :
                (StateOf(x) = "Validating" \/ lastValidate.inst = x) => x \in SleptOn

StepOrderNext ==
    /\ (pc' = "terminate" /\ pc # "terminate") =>
          (pc = "drain" \/ (options.CloudOnly /\ pc = "nextInstance"))
    /\ (pc' = "sleep" /\ pc # "sleep") => pc = "terminate"
    /\ (pc' = "validate" /\ pc # "validate") => (pc = "sleep" /\ ~options.CloudOnly)
    /\ pc = "drain" => pc' \in {"terminate", "done"}
    /\ pc = "sleep" => pc' \in {"validate", "nextInstance"}

\* C16: for every instance the steps come in the order drain, termination
\* request, interval sleep, validation: without CloudOnly no termination is
\* requested before the instance's drain has returned, and no validation
\* begins before the sleep of the group type's interval that follows the
\* termination
C16_StepOrder == []StepOrderInv /\ [][StepOrderNext]_vars

C16_Witness ==
    /\ ~options.CloudOnly
    /\ Len(termLog) = 2
    /\ StateOf(cur) = "Validating"
    /\ polls = 1
    /\ cur \in SleptOn
    /\ drains = 2 /\ validations = 2

InstanceStates ==
    {"Pending", "Draining", "Terminating", "AwaitingReplacement", "Validating",
     "Done", "Failed"}

\* the place of a state on the path Pending ... Done
StateRank(st) ==
    CASE st = "Pending" -> 0
      [] st = "Draining" -> 1
      [] st = "Terminating" -> 2
      [] st = "AwaitingReplacement" -> 3
      [] st = "Validating" -> 4
      [] st = "Done" -> 5
      [] st = "Failed" -> 6

\* a change of one instance's state from a to b is a legal one
LegalChange(a, b) ==
    IF b = "Failed"
    THEN a \in {"Draining", "Validating"}
    ELSE a \notin {"Done", "Failed"} /\ StateRank(b) > StateRank(a)

\* C17: every instance is in one of the seven states; its state only moves
\* forward along Pending, Draining, Terminating, AwaitingReplacement,
\* Validating, Done; Failed is entered only from Draining or Validating; Done
\* and Failed are never left
C17_StateMachine ==
    /\ [](\A x \in Instances : StateOf(x) \in InstanceStates)
    /\ [][\A g \in DOMAIN istate \cap DOMAIN istate' :
            \A i \in 1..GroupSize :
               istate[g][i] # istate'[g][i] =>
                  LegalChange(istate[g][i], istate'[g][i])]_vars

C17_Witness ==
    /\ pc = "done"
    /\ cur # <<>>
    /\ StateOf(cur) = "Failed"
    /\ failedAt.state = "Draining"
    /\ \E x \in Instances : StateOf(x) = "Done"
    /\ \E x \in Instances : StateOf(x) = "Pending"

\* the drain of cur failed and the policy tolerates it
ToleratedDrainError ==
    /\ ~options.FailOnDrainError /\ ~options.CloudOnly
    /\ cur \in Instances /\ lastDrain = "error"

ToleratedDrainInv ==
    ToleratedDrainError =>
        /\ result # "DrainError"
        /\ StateOf(cur) \notin {"Pending", "Draining"}
        /\ StateOf(cur) = "Terminating" =>
              (pc = "terminate" \/ lastTerminate = "rejected")
        /\ StateOf(cur) \in {"AwaitingReplacement", "Validating", "Done", "Failed"} =>
              (cur \in Range(termLog) /\ lastTerminate = "ok")
        /\ StateOf(cur) \in {"Validating", "Done", "Failed"} => cur \in SleptOn
        /\ StateOf(cur) \in {"Done", "Failed"} => lastValidate.inst = cur
        /\ StateOf(cur) = "Failed" => result = "ValidationTimeoutError"

\* C18: with FailOnDrainError false and without CloudOnly a drain error on an
\* instance neither ends the run nor skips the instance: the step that fails
\* goes on to the termination request for that same instance, and the
\* instance gets no further without that request, its sleep and its
\* validation
C18_BestEffortDrain ==
    /\ []ToleratedDrainInv
    /\ [][(/\ pc = "drain"
           /\ ~options.FailOnDrainError /\ ~options.CloudOnly
           /\ lastDrain' = "error")
          => (/\ pc' = "terminate"
              /\ cur' = cur
              /\ result' = ""
              /\ istate'[cur[1]][cur[2]] = "Terminating")]_vars

C18_Witness ==
    /\ ToleratedDrainError
    /\ pc = "nextInstance"
    /\ StateOf(cur) = "Done"
    /\ termLog[Len(termLog)] = cur
    /\ lastValidate = [inst |-> cur, outcome |-> "ok"]

\* the instances discovered as stale in the groups handed to execution
StaleInstances ==
    {x \in Instances : x[1] \in DOMAIN discovered
                       /\ x[2] \in Range(discovered[x[1]].NeedUpdate)}

\* a condition that is fatal under the run's options has arisen
FatalArose ==
    \/ lastTerminate = "rejected"
    \/ ~options.CloudOnly /\ options.FailOnDrainError /\ lastDrain = "error"
    \/ ~options.CloudOnly /\ options.FailOnValidate
         /\ lastValidate.outcome = "timeout"

\* the executor was called and the run has ended
EndedAfterGate == pc = "done" /\ invocations = 1

C19_EndsRight ==
    EndedAfterGate =>
        IF FatalArose
        THEN result \in ExecutionErrors
        ELSE /\ result = "Success"
             /\ \A x \in StaleInstances : StateOf(x) = "Done"

\* C19: every run that passes the gate ends (each drain, sleep and validation
\* poll takes a bounded number of steps), and a run in which no fatal
\* condition arose ends with success, every stale instance of every target
\* group then being Done
C19_Terminates ==
    /\ (invocations = 1) ~> (pc = "done")
    /\ []C19_EndsRight

C19_Witness ==
    /\ EndedAfterGate
    /\ result = "Success"
    /\ ~options.CloudOnly
    /\ lastDrain = "error"
    /\ \E x \in StaleInstances : \E y \in StaleInstances :
          x[1] # y[1] /\ StateOf(x) = "Done" /\ StateOf(y) = "Done"
    /\ Cardinality(StaleInstances) >= 3

\* the termination requests the cloud accepted, in order
AcceptedLog ==
    IF lastTerminate = "rejected" THEN SubSeq(termLog, 1, Len(termLog) - 1)
    ELSE termLog

\* the instances of group g whose termination the cloud accepted
Terminated(g) == {x[2] : x \in {y \in Range(AcceptedLog) : y[1] = g}}

NoRepeatedTermination == Cardinality(Range(termLog)) = Len(termLog)

OnlyStaleTerminated ==
    ~options.Force =>
        \A x \in Range(termLog) :
            /\ x[1] \in DOMAIN discovered
            /\ x[2] \in Range(discovered[x[1]].NeedUpdate)
            /\ x[2] \notin Range(discovered[x[1]].Ready)

OnlyOwnEntryRemoved ==
    /\ DOMAIN groups = DOMAIN discovered
    /\ \A g \in DOMAIN discovered :
          LET gone == Terminated(g) IN
          IF gone = {}
          THEN groups[g] = discovered[g]
          ELSE /\ groups[g].InstanceGroup = discovered[g].InstanceGroup
               /\ groups[g].Status = discovered[g].Status
               /\ groups[g].NeedUpdate =
                     SelectSeq(discovered[g].NeedUpdate, LAMBDA i : i \notin gone)
               /\ groups[g].Ready =
                     SelectSeq(discovered[g].Ready, LAMBDA i : i \notin gone)

\* C20: in every state of every run no instance has been sent for
\* termination twice, without Force only instances discovered as stale have
\* been sent, and the snapshot differs from the discovered one by exactly the
\* entries of the instances whose termination was accepted
C20_TerminationDiscipline ==
    [](
    /\ NoRepeatedTermination
    /\ OnlyStaleTerminated
    /\ OnlyOwnEntryRemoved
    )

C20_Witness ==
    /\ pc = "done" /\ result = "TerminationError"
    /\ ~options.Force
    /\ Len(termLog) = 2
    /\ termLog[1][1] = termLog[2][1]
    /\ Len(discovered[cur[1]].NeedUpdate) = 2
    /\ groups[cur[1]].NeedUpdate = <<cur[2]>>
    /\ groups[cur[1]].Ready = discovered[cur[1]].Ready
    /\ Len(groups[cur[1]].Ready) = 1
    /\ \E h \in DOMAIN groups : h # cur[1] /\ groups[h] = discovered[h]
====
